---- MODULE Spec2Model ----
(***************************************************************************)
(* grounded_git_mcp: the approval flow (propose / execute), the            *)
(* confirmation store and the classifier, as a state machine.              *)
(*                                                                         *)
(* Strings are TLA+ strings; lower(), strip() and "\n".join() are computed *)
(* character by character.  sha256 is modelled as a collision-free digest  *)
(* of its input text (Sha256Text), and the [:16] truncation of the id as   *)
(* collision-free too.  Optional values (None) are sequences of length 0   *)
(* or 1.                                                                   *)
(***************************************************************************)
EXTENDS Integers, Sequences, FiniteSets, TLC

(***************************************************************************)
(* Bounds of the model.                                                    *)
(***************************************************************************)
MaxProposals == 2
MaxEnvSteps == 1
MaxHead == 1
MaxProcs == 2
MaxRuns == 2

(***************************************************************************)
(* Program constants.                                                      *)
(***************************************************************************)
CONFIRM_TTL_SECONDS == 1800
TimeoutExitCode == 124

(***************************************************************************)
(* Text helpers: str.lower(), str.strip().                                 *)
(***************************************************************************)
LowerChar(c) ==
    CASE c = "A" -> "a" [] c = "B" -> "b" [] c = "C" -> "c" [] c = "D" -> "d"
      [] c = "E" -> "e" [] c = "F" -> "f" [] c = "G" -> "g" [] c = "H" -> "h"
      [] c = "I" -> "i" [] c = "J" -> "j" [] c = "K" -> "k" [] c = "L" -> "l"
      [] c = "M" -> "m" [] c = "N" -> "n" [] c = "O" -> "o" [] c = "P" -> "p"
      [] c = "Q" -> "q" [] c = "R" -> "r" [] c = "S" -> "s" [] c = "T" -> "t"
      [] c = "U" -> "u" [] c = "V" -> "v" [] c = "W" -> "w" [] c = "X" -> "x"
      [] c = "Y" -> "y" [] c = "Z" -> "z" [] OTHER -> c

RECURSIVE Lower(_)
Lower(s) ==
    IF Len(s) = 0 THEN ""
    ELSE LowerChar(SubSeq(s, 1, 1)) \o Lower(SubSeq(s, 2, Len(s)))

IsSpace(c) == c \in {" ", "\t", "\n", "\r", "\f"}

RECURSIVE LStrip(_)
LStrip(s) ==
    IF Len(s) > 0 /\ IsSpace(SubSeq(s, 1, 1)) THEN LStrip(SubSeq(s, 2, Len(s)))
    ELSE s

RECURSIVE RStrip(_)
RStrip(s) ==
    IF Len(s) > 0 /\ IsSpace(SubSeq(s, Len(s), Len(s)))
    THEN RStrip(SubSeq(s, 1, Len(s) - 1))
    ELSE s

Strip(s) == RStrip(LStrip(s))

(***************************************************************************)
(* Optional values and Python truthiness of an optional string.            *)
(***************************************************************************)
None == <<>>
Some(v) == <<v>>
Truthy(o) == o # None /\ o[1] # ""

(***************************************************************************)
(* Hashing: confirmations.py                                               *)
(***************************************************************************)
Sha256Text(s) == "sha256(" \o s \o ")"

RECURSIVE _stable_cmd_text(_)
_stable_cmd_text(args) ==
    IF Len(args) = 0 THEN ""
    ELSE IF Len(args) = 1 THEN args[1]
    ELSE args[1] \o "\n" \o _stable_cmd_text(Tail(args))

command_hash(args) == Sha256Text(_stable_cmd_text(args))

new_confirmation_id(root, t, args) ==
    Sha256Text(root \o "\n" \o ToString(t) \o "\n" \o _stable_cmd_text(args))

(***************************************************************************)
(* Classifier: classification.py                                           *)
(***************************************************************************)
_DENY == {"reset", "clean", "rebase", "commit-tree", "update-ref", "push", "fetch", "gc"}
_WRITE == {"add", "rm", "mv", "commit", "stash", "tag", "branch", "merge", "cherry-pick", "revert"}
_NETWORK == {"push", "fetch", "pull", "clone", "ls-remote", "submodule"}

Classification(kind, risk, reason) == [kind |-> kind, risk |-> risk, reason |-> reason]

classify_case_sensitive(args) ==
    IF Len(args) > 0 /\ args[1] \in _DENY
    THEN Classification("destructive", "critical", "Denied subcommand: " \o args[1])
    ELSE Classification("write", "medium", "Write subcommand")

classify_network_first(args) ==
    IF Len(args) = 0 THEN Classification("read", "low", "No args.")
    ELSE LET sub == Lower(args[1]) IN
         IF sub \in _NETWORK
         THEN Classification("network", "high", "Network subcommand: " \o sub)
         ELSE IF sub \in _DENY
         THEN Classification("destructive", "critical", "Denied subcommand: " \o sub)
         ELSE IF sub \in _WRITE
         THEN Classification("write",
                             IF sub \in {"add", "rm", "mv", "tag", "branch", "stash"}
                             THEN "medium" ELSE "high",
                             "Write subcommand: " \o sub)
         ELSE Classification("read", "low", "Assumed read-only: " \o sub)

classify_git_args(args) ==
    IF Len(args) = 0 THEN Classification("read", "low", "No args.")
    ELSE LET sub == Lower(args[1]) IN
         IF sub \in _DENY
         THEN Classification("destructive", "critical", "Denied subcommand: " \o sub)
         ELSE IF sub \in _NETWORK
         THEN Classification("network", "high", "Network subcommand: " \o sub)
         ELSE IF sub \in _WRITE
         THEN Classification("write",
                             IF sub \in {"add", "rm", "mv", "tag", "branch", "stash"}
                             THEN "medium" ELSE "high",
                             "Write subcommand: " \o sub)
         ELSE Classification("read", "low", "Assumed read-only: " \o sub)

(***************************************************************************)
(* Inputs of the model.                                                    *)
(***************************************************************************)
Roots == {"/a", "/b"}
Branches == {"main", "dev"}

\* Argument lists given to propose.
ArgLists ==
    { <<"add", "-A">>,
      <<"commit", "-m", "fix\n--amend">>,
      <<"push", "--force">>, <<"PUSH", "origin">>, <<"Reset", "--hard">>,
      <<"clean", "-fd">>, <<"rebase", "main">>, <<"commit-tree">>,
      <<"Update-Ref", "HEAD">>, <<"fetch">>, <<"GC">> }

\* Argument lists an external edit of the ledger file may substitute.
TamperLists ==
    { <<"commit", "-m", "fix", "--amend">>,
      <<"reset", "--hard">> }

\* expected_branch / require_clean combinations given to propose.
ProposeOptions ==
    { [expected_branch |-> None,         require_clean |-> FALSE],
      [expected_branch |-> Some("main"), require_clean |-> TRUE] }

\* propose called without expected_branch and require_clean.
NoOptions == [expected_branch |-> None, require_clean |-> FALSE]

\* What git does during one call.  gitOk: the read-only queries exit 0;
\* exit: the exit code of the confirmed command (success, failure, timeout);
\* commits: the confirmed command creates a commit.
GitBehaviours ==
    { [gitOk |-> TRUE,  exit |-> 0, commits |-> FALSE],
      [gitOk |-> TRUE,  exit |-> 0, commits |-> TRUE],
      [gitOk |-> TRUE,  exit |-> 1, commits |-> FALSE],
      [gitOk |-> TRUE,  exit |-> TimeoutExitCode, commits |-> FALSE],
      [gitOk |-> FALSE, exit |-> 1, commits |-> FALSE] }

\* Clock advances: one second, one whole time-to-live, one second more.
TickSteps == {1, CONFIRM_TTL_SECONDS, CONFIRM_TTL_SECONDS + 1}

UnknownId == "does-not-exist"

\* Confirmation strings a caller may send for an id.
PhraseInputs(id) ==
    { "I CONFIRM " \o id,
      " \tI CONFIRM " \o id \o " \n",
      "i confirm " \o id,
      "WRONG PHRASE" }

(***************************************************************************)
(* State.                                                                  *)
(*   now           the wall clock in whole seconds                         *)
(*   envSteps      the number of environment steps taken (bounded)         *)
(*   repoPath      the path the repository directory currently has        *)
(*   head, branch, dirty, conflicts   the live repository state           *)
(*   storeExists   .grounded_git_mcp/ and its ledger exist                 *)
(*   storeIgnored  the repository ignores .grounded_git_mcp/              *)
(*   ledger        confirmations.json: id -> record                        *)
(*   audit         audit.jsonl: the sequence of lines                      *)
(*   approved      id -> the args given to the latest propose that made id *)
(*                 (args) and to the first one (first)                     *)
(*   last          the call that has just returned: its inputs, the state  *)
(*                 it started in (pre) and its outcome                     *)
(* State of the step-by-step view of the store (concurrent callers):       *)
(*   procs         per caller: its operation, its position in the code and *)
(*                 its local variables                                     *)
(*   fs            the files of .grounded_git_mcp/ as the filesystem holds *)
(*                 them: paths, inodes and their contents                  *)
(* State of the step-by-step view of one runner (SafeGitRunner.run):       *)
(*   run           the configuration of the runner, the position of the    *)
(*                 call in run/_run_process, the child process and its     *)
(*                 helper, what was captured, and the result               *)
(***************************************************************************)
VARIABLES now, envSteps, repoPath, head, branch, dirty, conflicts,
          storeExists, storeIgnored, ledger, audit, approved, last,
          procs, fs, run

vars == <<now, envSteps, repoPath, head, branch, dirty, conflicts,
          storeExists, storeIgnored, ledger, audit, approved, last,
          procs, fs, run>>

\* The step-by-step views of the store and of the runner.
stepVars == <<procs, fs, run>>

repoVars == <<repoPath, head, branch, dirty, conflicts, storeIgnored>>

\* last.ran: runner.run was called with read_only=False; last.spawned: the
\* run of last.args spawned a process; last.exit: its exit code; last.args:
\* the args given to propose, passed by execute to the write-mode run, or run
\* by an informational tool or a direct run; last.gitOk: the read-only git
\* queries of the call exit 0 (TRUE when it makes none).
NoPre ==
    [rec |-> <<>>, ids |-> {}, lines |-> 0, head |-> "", branch |-> "",
     status |-> "", unmerged |-> "", now |-> 0, path |-> ""]

NoCall ==
    [op |-> "none", root |-> "", id |-> "", phrase |-> "", args |-> <<>>,
     gitOk |-> TRUE, pre |-> NoPre, result |-> "", ran |-> FALSE,
     spawned |-> FALSE, exit |-> 0]

(***************************************************************************)
(* Confirmation records: confirmations.py                                  *)
(***************************************************************************)
Preconditions(expected_head, expected_branch, require_clean, require_no_conflicts) ==
    [expected_head |-> expected_head, expected_branch |-> expected_branch,
     require_clean |-> require_clean, require_no_conflicts |-> require_no_conflicts]

Confirmation(id, root, args, classification, cmd_hash, created_at, expires_at, pre) ==
    [confirmation_id |-> id, root |-> root, args |-> args,
     classification |-> classification, cmd_hash |-> cmd_hash,
     created_at |-> created_at, expires_at |-> expires_at,
     max_uses |-> 1, used |-> 0, preconditions |-> pre]

is_expired_at_deadline(c, t) == t >= c.expires_at
is_expired(c, t) == t > c.expires_at

can_use_ignores_expiry(c, t) == c.used < c.max_uses
can_use(c, t) == (~is_expired(c, t)) /\ c.used < c.max_uses

(***************************************************************************)
(* FileConfirmationStore: confirmations.py                                 *)
(***************************************************************************)
EmptyLedger == [i \in {} |-> None]

\* The number of 'proposed' lines of an audit log.
Proposed(log) == Cardinality({i \in 1..Len(log) : log[i].action = "proposed"})

audit_line(t, action, id, extra) ==
    [ts |-> t, action |-> action, confirmation_id |-> id, extra |-> extra]

\* audit: the log after the line is appended (the file is opened in "a" mode).
store_audit_rewrites(log, line) == <<line>>
store_audit(log, line) == Append(log, line)

\* get: None for an absent id.
store_get(data, id) == IF id \in DOMAIN data THEN Some(data[id]) ELSE None

\* put: the ledger after the whole-file rewrite.
store_put(data, c) ==
    [i \in DOMAIN data \cup {c.confirmation_id} |->
        IF i = c.confirmation_id THEN c ELSE data[i]]

\* mark_used: the ledger after the rewrite (unchanged for an absent id).
store_mark_used(data, id) ==
    IF id \notin DOMAIN data THEN data
    ELSE [data EXCEPT ![id].used = data[id].used + 1]

(***************************************************************************)
(* What the read-only git queries print for the live repository.           *)
(***************************************************************************)
RevParseHead == "c" \o ToString(head)
RevParseAbbrevRef == branch
\* The store directory lies inside the working tree: unless the repository
\* ignores it, status lists it as untracked.
StatusPorcelain(storePresent) ==
    IF dirty \/ (storePresent /\ ~storeIgnored) THEN "?? changed" ELSE ""
DiffUnmerged == IF conflicts THEN "conflicted.txt" ELSE ""

\* The state a call about `id` starts in: the ledger record of id (None when
\* absent), the ids in the ledger, the number of audit lines, what the
\* read-only git queries would print, the clock, the path of the repository.
Pre(id) ==
    [rec |-> store_get(ledger, id), ids |-> DOMAIN ledger, lines |-> Len(audit),
     head |-> RevParseHead, branch |-> RevParseAbbrevRef,
     status |-> StatusPorcelain(TRUE), unmerged |-> DiffUnmerged,
     now |-> now, path |-> repoPath]

Call(op, root, id, phrase, args, gitOk, result, ran, spawned, exit) ==
    [op |-> op, root |-> root, id |-> id, phrase |-> phrase, args |-> args,
     gitOk |-> gitOk, pre |-> Pre(id), result |-> result, ran |-> ran,
     spawned |-> spawned, exit |-> exit]

(***************************************************************************)
(* Approval flow: approval_flow.py                                         *)
(* Results are "ok" or the name and message of the exception raised.       *)
(***************************************************************************)
Ok == "ok"
GitFailed(context) == "GitExecutionError: " \o context \o " failed"

(***************************************************************************)
(* SafeGitRunner: git_runner.py                                            *)
(***************************************************************************)
read_only_allowlist ==
    {"rev-parse", "status", "log", "diff", "show", "branch", "remote", "config",
     "ls-files", "cat-file", "describe", "tag", "grep", "blame", "ls-tree",
     "merge-base"}

dangerous_flags ==
    {"--global", "--system", "--unset", "--unset-all", "--add", "--replace-all",
     "--delete", "--force", "-f"}

\* [a.strip() for a in args_list], then [a.lower() for a in args].
Lowered(args_list) == [i \in 1..Len(args_list) |-> Lower(Strip(args_list[i]))]

Has(lowered, flags) == \E i \in 1..Len(lowered) : lowered[i] \in flags

\* _validate_args in read-only mode, for a non-empty list: Ok, or the
\* GitPolicyError raised.
read_only_policy_flags_only(args_list) ==
    IF Has(Lowered(args_list), dangerous_flags)
    THEN "GitPolicyError: Blocked potentially mutating git flags in read-only mode"
    ELSE Ok
read_only_policy_config_strict(args_list) ==
    LET lowered == Lowered(args_list)
        subcmd == lowered[1]
    IN  IF subcmd \notin read_only_allowlist
        THEN "GitPolicyError: Blocked git subcommand in read-only mode: '" \o subcmd \o "'"
        ELSE IF Has(lowered, dangerous_flags)
        THEN "GitPolicyError: Blocked potentially mutating git flags in read-only mode"
        ELSE IF subcmd = "branch" /\ Has(lowered, {"-d", "--delete"})
        THEN "GitPolicyError: Blocked branch deletion in read-only mode."
        ELSE IF subcmd = "tag" /\ Has(lowered, {"-d", "--delete"})
        THEN "GitPolicyError: Blocked tag deletion in read-only mode."
        ELSE IF subcmd = "remote" /\ Len(lowered) >= 2
                /\ lowered[2] \in {"set-url", "add", "remove", "rename"}
        THEN "GitPolicyError: Blocked remote mutation in read-only mode."
        ELSE IF subcmd = "config" /\ Len(lowered) >= 2
        THEN "GitPolicyError: Blocked config write in read-only mode."
        ELSE Ok
read_only_policy_flags_verbatim(args_list) ==
    LET lowered == Lowered(args_list)
        subcmd == lowered[1]
    IN  IF subcmd \notin read_only_allowlist
        THEN "GitPolicyError: Blocked git subcommand in read-only mode: '" \o subcmd \o "'"
        ELSE IF Has(args_list, dangerous_flags)
        THEN "GitPolicyError: Blocked potentially mutating git flags in read-only mode"
        ELSE IF subcmd = "branch" /\ Has(lowered, {"-d", "--delete"})
        THEN "GitPolicyError: Blocked branch deletion in read-only mode."
        ELSE IF subcmd = "tag" /\ Has(lowered, {"-d", "--delete"})
        THEN "GitPolicyError: Blocked tag deletion in read-only mode."
        ELSE IF subcmd = "remote" /\ Len(lowered) >= 2
                /\ lowered[2] \in {"set-url", "add", "remove", "rename"}
        THEN "GitPolicyError: Blocked remote mutation in read-only mode."
        ELSE IF subcmd = "config" /\ Len(lowered) >= 3
        THEN "GitPolicyError: Blocked config write in read-only mode."
        ELSE Ok
read_only_policy_tag_unchecked(args_list) ==
    LET lowered == Lowered(args_list)
        subcmd == lowered[1]
    IN  IF subcmd \notin read_only_allowlist
        THEN "GitPolicyError: Blocked git subcommand in read-only mode: '" \o subcmd \o "'"
        ELSE IF Has(lowered, dangerous_flags)
        THEN "GitPolicyError: Blocked potentially mutating git flags in read-only mode"
        ELSE IF subcmd = "branch" /\ Has(lowered, {"-d", "--delete"})
        THEN "GitPolicyError: Blocked branch deletion in read-only mode."
        ELSE IF subcmd = "remote" /\ Len(lowered) >= 2
                /\ lowered[2] \in {"set-url", "add", "remove", "rename"}
        THEN "GitPolicyError: Blocked remote mutation in read-only mode."
        ELSE IF subcmd = "config" /\ Len(lowered) >= 3
        THEN "GitPolicyError: Blocked config write in read-only mode."
        ELSE Ok
read_only_policy(args_list) ==
    LET lowered == Lowered(args_list)
        subcmd == lowered[1]
    IN  IF subcmd \notin read_only_allowlist
        THEN "GitPolicyError: Blocked git subcommand in read-only mode: '" \o subcmd \o "'"
        ELSE IF Has(lowered, dangerous_flags)
        THEN "GitPolicyError: Blocked potentially mutating git flags in read-only mode"
        ELSE IF subcmd = "branch" /\ Has(lowered, {"-d", "--delete"})
        THEN "GitPolicyError: Blocked branch deletion in read-only mode."
        ELSE IF subcmd = "tag" /\ Has(lowered, {"-d", "--delete"})
        THEN "GitPolicyError: Blocked tag deletion in read-only mode."
        ELSE IF subcmd = "remote" /\ Len(lowered) >= 2
                /\ lowered[2] \in {"set-url", "add", "remove", "rename"}
        THEN "GitPolicyError: Blocked remote mutation in read-only mode."
        ELSE IF subcmd = "config" /\ Len(lowered) >= 3
        THEN "GitPolicyError: Blocked config write in read-only mode."
        ELSE Ok

\* _validate_args: Ok, or the GitPolicyError raised before any process is
\* spawned.
validate_args_write_mode_first(args_list, read_only) ==
    IF ~read_only THEN Ok
    ELSE IF Len(args_list) = 0 THEN "GitPolicyError: Empty git args are not allowed."
    ELSE read_only_policy(args_list)
_validate_args(args_list, read_only) ==
    IF Len(args_list) = 0 THEN "GitPolicyError: Empty git args are not allowed."
    ELSE IF ~read_only THEN Ok
    ELSE read_only_policy(args_list)

\* The default of run's read_only parameter.
run_default_write == FALSE
run_default_read_only == TRUE

Max(a, b) == IF a >= b THEN a ELSE b
Min(a, b) == IF a <= b THEN a ELSE b

\* s[:n] for n >= 0.
Take(s, n) == SubSeq(s, 1, Min(n, Len(s)))

\* _apply_output_ceiling: <<stdout, stderr, output_truncated>>.
ceiling_stdout_unreduced(stdout, stderr, max_output_chars) ==
    LET max_chars == Max(1, max_output_chars)
        output_truncated == Len(stdout) + Len(stderr) > max_chars
        keep_stderr == Min(Len(stderr), max_chars \div 2)
    IN  IF ~output_truncated THEN <<stdout, stderr, FALSE>>
        ELSE <<Take(stdout, max_chars), Take(stderr, keep_stderr), TRUE>>
ceiling_prefers_stdout(stdout, stderr, max_output_chars) ==
    LET max_chars == Max(1, max_output_chars)
        output_truncated == Len(stdout) + Len(stderr) > max_chars
        keep_stdout == Min(Len(stdout), max_chars \div 2)
        keep_stderr == max_chars - keep_stdout
    IN  IF ~output_truncated THEN <<stdout, stderr, FALSE>>
        ELSE <<Take(stdout, keep_stdout), Take(stderr, keep_stderr), TRUE>>
_apply_output_ceiling(stdout, stderr, max_output_chars) ==
    LET max_chars == Max(1, max_output_chars)
        combined_len == Len(stdout) + Len(stderr)
        output_truncated == combined_len > max_chars
        keep_stderr == Min(Len(stderr), max_chars \div 2)
        keep_stdout == max_chars - keep_stderr
    IN  IF ~output_truncated THEN <<stdout, stderr, FALSE>>
        ELSE <<Take(stdout, keep_stdout), Take(stderr, keep_stderr), TRUE>>

\* The fields of GitRunResult the claims speak of (argv and root repeat the
\* inputs, duration_ms is a measurement).
GitRunResult(stdout, stderr, exit_code, timed_out, output_truncated) ==
    [stdout |-> stdout, stderr |-> stderr, exit_code |-> exit_code,
     timed_out |-> timed_out, output_truncated |-> output_truncated]

NoResult == <<>>

\* GitRunnerConfig: the defaults, and the timeouts of the two cleanup waits
\* of _run_process, in milliseconds.
DefaultMaxOutputChars == 80000
DefaultTimeoutMs == 3000
DrainTimeoutMs == 200
ReapTimeoutMs == 500

\* The timeout the code arms for the call run blocks in at a position:
\* communicate(timeout=timeout_s), communicate(timeout=0.2),
\* wait(timeout=0.5), and subprocess.run(["taskkill", ...]) with none.
blocking_timeout(pc) ==
    CASE pc = "communicate" -> Some(DefaultTimeoutMs)
      [] pc = "drain" -> Some(DrainTimeoutMs)
      [] pc = "reap" -> Some(ReapTimeoutMs)
      [] pc = "taskkill" -> None
      [] OTHER -> None

\* A runner that has made no call.  os is os.name; child and helper are the
\* process git and a descendant of it: a helper is in the process group of
\* git and holds its pipes ("group"), or has left the group and the pipes
\* ("detached").  out and err are what git writes, rc its own exit code;
\* got, exit_code and timed_out are the locals of _run_process; error is the
\* exception being raised; prev is the pair captured and the triple returned
\* by the ceiling in the call before.
IdleRun(os, max_output_chars) ==
    [os |-> os, max_output_chars |-> max_output_chars, calls |-> 0, pc |-> "idle",
     child |-> "none", helper |-> "none", out |-> "", err |-> "", rc |-> 0,
     got |-> <<"", "">>, exit_code |-> 0, timed_out |-> FALSE, error |-> "",
     result |-> NoResult, prev |-> NoResult]

\* The four steps of _check_preconditions: Ok, or the exception raised.
\* gitOk: the read-only queries of this call exit 0.
branch_check(p, gitOk) ==
    IF ~Truthy(p.expected_branch) THEN Ok
    ELSE IF ~gitOk THEN GitFailed("precondition(branch)")
    ELSE IF Strip(RevParseAbbrevRef) # p.expected_branch[1]
    THEN "ValueError: Branch changed"
    ELSE Ok

head_check_skipped(p, gitOk) == Ok
head_check(p, gitOk) ==
    IF ~Truthy(p.expected_head) THEN Ok
    ELSE IF ~gitOk THEN GitFailed("precondition(head)")
    ELSE IF Strip(RevParseHead) # p.expected_head[1]
    THEN "ValueError: HEAD changed since approval."
    ELSE Ok

clean_check(p, gitOk) ==
    IF ~p.require_clean THEN Ok
    ELSE IF ~gitOk THEN GitFailed("precondition(clean)")
    ELSE IF Strip(StatusPorcelain(TRUE)) # ""
    THEN "ValueError: Working tree is not clean."
    ELSE Ok

conflicts_check_skipped(p, gitOk) == Ok
conflicts_check(p, gitOk) ==
    IF ~p.require_no_conflicts THEN Ok
    ELSE IF ~gitOk THEN GitFailed("precondition(conflicts)")
    ELSE IF Strip(DiffUnmerged) # ""
    THEN "ValueError: Unmerged/conflicted files detected."
    ELSE Ok

\* _check_preconditions: Ok, or the first failure.
_check_preconditions(p, gitOk) ==
    IF branch_check(p, gitOk) # Ok THEN branch_check(p, gitOk)
    ELSE IF head_check(p, gitOk) # Ok THEN head_check(p, gitOk)
    ELSE IF clean_check(p, gitOk) # Ok THEN clean_check(p, gitOk)
    ELSE conflicts_check(p, gitOk)

\* Paths that name a regular file.
Files == {"/f.txt"}

\* resolve_root: Ok, or the InvalidRootError raised.  The only directory of
\* the model is the repository.
resolve_root_exists_only(root) ==
    IF root # repoPath /\ root \notin Files
    THEN "InvalidRootError: Root does not exist"
    ELSE Ok
resolve_root(root) ==
    IF root # repoPath /\ root \notin Files
    THEN "InvalidRootError: Root does not exist"
    ELSE IF root # repoPath
    THEN "InvalidRootError: Root is not a directory"
    ELSE Ok

\* propose_git_command before the HEAD query: Ok, or the exception raised.
propose_validation(root, args) ==
    IF resolve_root(root) # Ok THEN resolve_root(root)
    ELSE IF classify_git_args(args).risk = "critical"
    THEN "ValueError: Command rejected: " \o classify_git_args(args).reason
    ELSE Ok

\* The record propose builds.
pending_confirmation(root, args, opt) ==
    Confirmation(new_confirmation_id(root, now, args), root, args,
                 classify_git_args(args), command_hash(args),
                 now, now + CONFIRM_TTL_SECONDS,
                 Preconditions(Some(Strip(RevParseHead)), opt.expected_branch,
                               opt.require_clean, TRUE))

Propose(root, args, opt) ==
    /\ Proposed(audit) < MaxProposals
    /\ storeExists' = (storeExists \/ resolve_root(root) = Ok)
    /\ LET v == propose_validation(root, args)
           c == pending_confirmation(root, args, opt)
       IN  IF v # Ok
           THEN /\ last' = Call("propose", root, c.confirmation_id, "", args, TRUE, v,
                                FALSE, FALSE, 0)
                /\ UNCHANGED <<ledger, audit, approved>>
           ELSE \E gitOk \in BOOLEAN :
                IF ~gitOk
                THEN /\ last' = Call("propose", root, c.confirmation_id, "", args,
                                     FALSE, GitFailed("propose(expected_head)"),
                                     FALSE, FALSE, 0)
                     /\ UNCHANGED <<ledger, audit, approved>>
                ELSE /\ ledger' = store_put(ledger, c)
                     /\ audit' = store_audit(audit, audit_line(now, "proposed",
                                                               c.confirmation_id,
                                                               c.classification))
                     /\ approved' = store_put(approved,
                            [confirmation_id |-> c.confirmation_id, args |-> args,
                             first |-> IF c.confirmation_id \in DOMAIN approved
                                       THEN approved[c.confirmation_id].first
                                       ELSE args])
                     /\ last' = Call("propose", root, c.confirmation_id, "", args,
                                     TRUE, Ok, FALSE, FALSE, 0)
    /\ UNCHANGED <<now, envSteps, repoVars, stepVars>>

\* The phrase check and the tamper check of execute_confirmed.
phrase_ok_any_case(user_confirmation, id) ==
    Lower(Strip(user_confirmation)) = Lower("I CONFIRM " \o id)
phrase_ok(user_confirmation, id) ==
    Strip(user_confirmation) = "I CONFIRM " \o id

\* The root check of execute_confirmed: the token is scoped to one root.
root_unchecked(confirmation, root) == TRUE
root_ok(confirmation, root) == confirmation.root = root

hash_unchecked(confirmation) == TRUE
hash_ok(confirmation) ==
    command_hash(confirmation.args) = confirmation.cmd_hash

\* execute_confirmed, checks 1-5: Ok, or the exception raised.
execute_validation(root, id, phrase) ==
    IF resolve_root(root) # Ok THEN resolve_root(root)
    ELSE IF store_get(ledger, id) = None THEN "ValueError: Unknown confirmation_id."
    ELSE LET confirmation == store_get(ledger, id)[1] IN
         IF ~root_ok(confirmation, root) THEN "ValueError: Token repo_root mismatch."
         ELSE IF ~can_use(confirmation, now) THEN "ValueError: Token expired or already used."
         ELSE IF ~phrase_ok(phrase, id)
         THEN "ValueError: Invalid confirmation phrase."
         ELSE IF ~hash_ok(confirmation)
         THEN "ValueError: Command hash mismatch (tampering detected)."
         ELSE Ok

\* Whether store.mark_used is reached after a spawned run that exits `exit`:
\* require_ok raises on a non-zero exit code, before store.mark_used.
marks_used(exit) == exit = 0

\* runner.run(confirmation.args, read_only=False) and what follows it.
execute_run(root, id, phrase, git) ==
    LET confirmation == ledger[id] IN
    IF _validate_args(confirmation.args, FALSE) # Ok
    THEN \* _validate_args raises before any process is spawned
         /\ last' = Call("execute", root, id, phrase, confirmation.args, TRUE,
                         _validate_args(confirmation.args, FALSE),
                         TRUE, FALSE, 0)
         /\ UNCHANGED <<ledger, audit, head, dirty>>
    ELSE /\ IF git.commits
            THEN head' = head + 1 /\ dirty' = FALSE
            ELSE UNCHANGED <<head, dirty>>
         /\ IF marks_used(git.exit)
            THEN /\ ledger' = store_mark_used(ledger, id)
                 /\ audit' = store_audit(audit, audit_line(now, "executed", id,
                                                           [exit_code |-> git.exit]))
            ELSE UNCHANGED <<ledger, audit>>
         /\ last' = Call("execute", root, id, phrase, confirmation.args, TRUE,
                         IF git.exit = 0 THEN Ok
                         ELSE GitFailed("execute_confirmed(run)"),
                         TRUE, TRUE, git.exit)

Execute(root, id, phrase) ==
    /\ storeExists' = (storeExists \/ resolve_root(root) = Ok)
    /\ LET v == execute_validation(root, id, phrase) IN
       IF v # Ok
       THEN /\ last' = Call("execute", root, id, phrase, <<>>, TRUE, v,
                            FALSE, FALSE, 0)
            /\ UNCHANGED <<ledger, audit, head, dirty>>
       ELSE \E git \in GitBehaviours :
            /\ git.commits => head < MaxHead
            /\ LET w == _check_preconditions(ledger[id].preconditions, git.gitOk) IN
               IF w # Ok
               THEN /\ last' = Call("execute", root, id, phrase, <<>>, git.gitOk, w,
                                    FALSE, FALSE, 0)
                    /\ UNCHANGED <<ledger, audit, head, dirty>>
               ELSE execute_run(root, id, phrase, git)
    /\ UNCHANGED <<now, envSteps, repoPath, branch, conflicts, storeIgnored, approved,
                   stepVars>>

(***************************************************************************)
(* The environment: the clock, other users of the repository, and external *)
(* edits of the ledger file.                                               *)
(***************************************************************************)
\* Every environment step counts against the bound and ends the view of
\* the last call.
EnvStep ==
    /\ envSteps < MaxEnvSteps
    /\ envSteps' = envSteps + 1
    /\ last' = NoCall
    /\ UNCHANGED stepVars

Tick(d) ==
    /\ EnvStep
    /\ now' = now + d
    /\ UNCHANGED <<repoVars, storeExists, ledger, audit, approved>>

Commit ==
    /\ EnvStep
    /\ head < MaxHead
    /\ head' = head + 1
    /\ UNCHANGED <<now, repoPath, branch, dirty, conflicts,
                   storeExists, storeIgnored, ledger, audit, approved>>

Checkout(b) ==
    /\ EnvStep
    /\ b # branch
    /\ branch' = b
    /\ UNCHANGED <<now, repoPath, head, dirty, conflicts,
                   storeExists, storeIgnored, ledger, audit, approved>>

EditFile ==
    /\ EnvStep
    /\ dirty' = ~dirty
    /\ UNCHANGED <<now, repoPath, head, branch, conflicts,
                   storeExists, storeIgnored, ledger, audit, approved>>

Conflict ==
    /\ EnvStep
    /\ conflicts' = ~conflicts
    /\ UNCHANGED <<now, repoPath, head, branch, dirty,
                   storeExists, storeIgnored, ledger, audit, approved>>

\* The repository directory is renamed; the store moves with it.
MoveRepo(r) ==
    /\ EnvStep
    /\ r # repoPath
    /\ repoPath' = r
    /\ UNCHANGED <<now, head, branch, dirty, conflicts,
                   storeExists, storeIgnored, ledger, audit, approved>>

\* The args of a stored record are replaced, its cmd_hash left as written.
Tamper(id, args) ==
    /\ EnvStep
    /\ id \in DOMAIN ledger
    /\ ledger[id].args # args
    /\ ledger' = [ledger EXCEPT ![id].args = args]
    /\ UNCHANGED <<now, repoVars, storeExists, audit, approved>>

\* The concurrent callers of the step-by-step view.
Procs == 1..MaxProcs

\* The contents of a file: the complete JSON text of a mapping, or the empty
\* text of a file that was opened for writing and not written yet.  _load
\* reads the empty text as {} (read_text() or "{}").
Serialized(data) == [complete |-> TRUE, data |-> data]
EmptyFile == [complete |-> FALSE, data |-> EmptyLedger]

\* No .grounded_git_mcp/ yet.  db and tmp are the inodes the paths
\* confirmations.json and confirmations.json.tmp name (0: no such file);
\* content[i] is what inode i holds; log is audit.jsonl.
NoStore == [db |-> 0, tmp |-> 0, content |-> <<>>, log |-> <<>>]

\* A caller that makes no call.
Idle == [op |-> "none", args |-> <<>>, id |-> "", pc |-> "done",
         data |-> EmptyLedger, fd |-> 0, spawned |-> FALSE]

\* A fresh repository: no store, no call made.
RepoInit ==
    /\ now = 0
    /\ envSteps = 0
    /\ repoPath = "/a"
    /\ head = 0
    /\ branch = "main"
    /\ dirty = FALSE
    /\ conflicts = FALSE
    /\ storeExists = FALSE
    /\ ledger = EmptyLedger
    /\ audit = <<>>
    /\ approved = EmptyLedger
    /\ last = NoCall

Init ==
    /\ RepoInit
    /\ storeIgnored \in BOOLEAN
    /\ procs = [p \in Procs |-> Idle]
    /\ fs = NoStore
    /\ run = IdleRun("posix", DefaultMaxOutputChars)

\* A call on a path that is no directory fails whatever its other inputs
\* are: such calls are enumerated with one choice of them.
Next ==
    \/ \E root \in Roots, args \in ArgLists, opt \in ProposeOptions :
          /\ root # repoPath => (args = <<"add", "-A">> /\ ~opt.require_clean)
          /\ Propose(root, args, opt)
    \/ \E root \in Roots, id \in DOMAIN ledger \cup {UnknownId} :
          \E phrase \in PhraseInputs(id) :
             /\ root # repoPath => phrase = "I CONFIRM " \o id
             /\ Execute(root, id, phrase)
    \/ \E d \in TickSteps : Tick(d)
    \/ Commit
    \/ \E b \in Branches : Checkout(b)
    \/ EditFile
    \/ Conflict
    \/ \E r \in Roots : MoveRepo(r)
    \/ \E id \in DOMAIN ledger, args \in TamperLists : Tamper(id, args)

Spec == Init /\ [][Next]_vars

(***************************************************************************)
(* The informational tools: git_tools.py.  Each tool is the list of the    *)
(* argument lists it passes to runner.run, in order.                       *)
(***************************************************************************)
repo_info_runs ==
    << <<"rev-parse", "--is-inside-work-tree">>,
       <<"rev-parse", "--abbrev-ref", "HEAD">>,
       <<"rev-parse", "HEAD">>,
       <<"rev-parse", "--abbrev-ref", "@{u}">> >>

status_porcelain_runs == << <<"status", "--porcelain=v1">> >>

diff_summary_runs(staged, against) ==
    << <<"diff", "--name-status">>
          \o (IF staged THEN <<"--cached">> ELSE <<>>)
          \o (IF Truthy(against) THEN <<against[1]>> ELSE <<>>) >>

log_runs == << <<"log", "-20", "--pretty=format:%h %ad %s (%an)", "--date=short">> >>

show_commit_runs(commit, patch) ==
    << <<"show", "--stat">> \o (IF patch THEN <<"--patch">> ELSE <<>>) \o <<commit>> >>

grep_runs(pattern) == << <<"grep", "-n", "--no-color", "-e", pattern>> >>

blame_runs(file_path) ==
    << <<"blame", "--line-porcelain", "-L1,200", "--", file_path>> >>

detect_conflicts_runs == << <<"diff", "--name-only", "--diff-filter=U">> >>

\* The calls of the informational tools the model makes.
InfoCalls ==
    { repo_info_runs, status_porcelain_runs, log_runs, detect_conflicts_runs,
      diff_summary_runs(FALSE, None), diff_summary_runs(TRUE, Some("HEAD")),
      show_commit_runs("HEAD", TRUE), show_commit_runs("--force", FALSE),
      grep_runs("TODO"), blame_runs("README.md") }

\* The first run of a tool's list that policy rejects (0: none).
RECURSIVE FirstRejected(_, _)
FirstRejected(runs, i) ==
    IF i > Len(runs) THEN 0
    ELSE IF _validate_args(runs[i], run_default_read_only) # Ok THEN i
    ELSE FirstRejected(runs, i + 1)

\* One informational tool call: make_runner, then its runs, each with the
\* default mode of run.  A run that exits non-zero raises nothing here.
Info(root, runs) ==
    /\ LET k == FirstRejected(runs, 1) IN
       IF resolve_root(root) # Ok
       THEN last' = Call("info", root, "", "", <<>>, TRUE, resolve_root(root),
                         FALSE, FALSE, 0)
       ELSE IF k # 0
       THEN last' = Call("info", root, "", "", runs[k], TRUE,
                         _validate_args(runs[k], run_default_read_only),
                         ~run_default_read_only, FALSE, 0)
       ELSE last' = Call("info", root, "", "", runs[Len(runs)], TRUE, Ok,
                         ~run_default_read_only, TRUE, 0)
    /\ UNCHANGED <<now, envSteps, repoVars, storeExists, ledger, audit, approved,
                   stepVars>>

(***************************************************************************)
(* The calls alone: propose, execute and the informational tools, and the  *)
(* clock; nobody else changes the repository or edits the ledger file.     *)
(***************************************************************************)
\* Argument lists given to propose: two that differ and join to one text,
\* the empty list, a denied one.
CallArgLists ==
    { <<"commit", "-m", "fix\n--amend">>,
      <<"commit", "-m", "fix", "--amend">>,
      <<>>,
      <<"push", "--force">> }

CallsNext ==
    \/ \E root \in Roots, args \in CallArgLists :
          /\ root # repoPath => args = <<>>
          /\ Propose(root, args, NoOptions)
    \/ \E root \in Roots, id \in DOMAIN ledger \cup {UnknownId} :
          \E phrase \in PhraseInputs(id) :
             /\ root # repoPath => phrase = "I CONFIRM " \o id
             /\ Execute(root, id, phrase)
    \/ \E root \in Roots, runs \in InfoCalls :
          /\ root # repoPath => runs = status_porcelain_runs
          /\ Info(root, runs)
    \/ \E d \in TickSteps : Tick(d)

CallsSpec == Init /\ [][CallsNext]_vars

(***************************************************************************)
(* The runner alone: runner.run called directly, in either mode.           *)
(***************************************************************************)
\* First elements: the allowlisted verbs, other verbs, and verbs in upper
\* case or padded with whitespace.
RunVerbs ==
    read_only_allowlist
    \cup {"push", "reset", "clean", "checkout", "rebase", "add", "commit", "fetch",
          "pull", "merge", "PUSH", " add ", "Status", "\tLOG\n", "Commit", " RESET",
          "", "stat us"}

\* What follows the verb: nothing, each dangerous flag alone, dangerous flags
\* in a later position, padded and in upper case, and the arguments the
\* sub-policies of branch, tag, remote and config look at.
RunTails ==
    {<<>>, <<"-d", "x">>, <<"-D">>, <<"x", " --Delete ">>, <<"x", "y", " --FORCE\n">>,
     <<"-F">>, <<"add", "o">>, <<" Rename ", "o", "u">>, <<"show", "add">>, <<"k">>,
     <<"k", "v">>, <<"-v">>}
    \cup {<<f>> : f \in dangerous_flags}

\* The verbs the sub-policies name, a verb they do not, and a padded verb in
\* upper case.
PolicyVerbs == {"branch", "tag", "remote", "config", "log", " Config\t"}

RunArgLists ==
    {<<>>}
    \cup {<<v>> \o t : v \in RunVerbs, t \in {<<>>, <<"--force">>, <<"-d", "x">>}}
    \cup {<<v>> \o t : v \in PolicyVerbs, t \in RunTails}

\* run(args, read_only=...): _validate_args, then the process is spawned and
\* its exit code returned in the result (run raises nothing on a failure of
\* git).
RunCall(args, read_only) ==
    /\ LET v == _validate_args(args, read_only) IN
       \E exit \in {0, 1} :
          /\ v # Ok => exit = 0
          /\ last' = Call("run", repoPath, "", "", args, TRUE, v, ~read_only, v = Ok, exit)
    /\ UNCHANGED <<now, envSteps, repoVars, storeExists, ledger, audit, approved,
                   stepVars>>

RunNext == \E args \in RunArgLists, read_only \in BOOLEAN : RunCall(args, read_only)

RunSpec == Init /\ [][RunNext]_vars

(***************************************************************************)
(* Roots: propose, execute and an informational tool called on the         *)
(* repository, on a path that does not exist and on a regular file, while  *)
(* the repository may be moved and the clock advances.                     *)
(***************************************************************************)
CallRoots == Roots \cup Files

RootNext ==
    \/ \E root \in CallRoots, args \in {<<"add", "-A">>, <<"tag", "v1">>} :
          Propose(root, args, NoOptions)
    \/ \E root \in CallRoots, id \in DOMAIN ledger \cup {UnknownId} :
          Execute(root, id, "I CONFIRM " \o id)
    \/ \E root \in CallRoots : Info(root, status_porcelain_runs)
    \/ \E r \in Roots : MoveRepo(r)
    \/ Tick(1)

RootSpec == Init /\ [][RootNext]_vars

(***************************************************************************)
(* The classifier alone: propose called with every verb the classifier     *)
(* names, in lower and in mixed case, padded verbs, other verbs and the    *)
(* empty list; the classification is what propose stores or rejects.       *)
(***************************************************************************)
ClassifyVerbs ==
    _DENY \cup _NETWORK \cup _WRITE
    \cup {"status", "log", "", "PUSH", "Fetch", "Ls-Remote", "Cherry-Pick", "STASH",
          " push", "gc ", "Status"}

ClassifyArgLists ==
    {<<>>, <<"status", "push">>, <<"add", "-A">>} \cup {<<v>> : v \in ClassifyVerbs}

ClassifyNext == \E args \in ClassifyArgLists : Propose(repoPath, args, NoOptions)

ClassifySpec == Init /\ [][ClassifyNext]_vars

(***************************************************************************)
(* run step by step: one runner whose calls pass _validate_args, on POSIX  *)
(* or on Windows, with the output budget it was configured with.  Each     *)
(* action is one call of run or of _run_process into the operating system  *)
(* together with the outcome of that call.                                  *)
(***************************************************************************)
\* Configured max_output_chars: negative, zero, odd and even, and more than
\* any output of the model.
Budgets == {-1, 0, 1, 2, 3, 4, 5, 9}

\* What git writes to stdout and to stderr.
ChildOuts == {"", "ab", "abcde"}
ChildErrs == {"", "x", "wxyz"}

Helpers == {"none", "group", "detached"}

\* What the rest of the model leaves alone.
flowVars == <<now, envSteps, repoPath, head, branch, dirty, conflicts,
              storeExists, storeIgnored, ledger, audit, approved, last, procs, fs>>

\* The locals of a new call; prev keeps the ceiling of the call before.
NewCall ==
    [run EXCEPT !.calls = run.calls + 1, !.pc = "communicate",
                !.child = "none", !.helper = "none", !.out = "", !.err = "", !.rc = 0,
                !.got = <<"", "">>, !.exit_code = 0, !.timed_out = FALSE,
                !.error = "", !.result = NoResult,
                !.prev = IF run.pc = "returned"
                         THEN [got |-> run.got,
                               triple |-> <<run.result.stdout, run.result.stderr,
                                            run.result.output_truncated>>]
                         ELSE run.prev]

CanCall == run.pc \in {"idle", "returned", "raised"} /\ run.calls < MaxRuns

\* subprocess.Popen fails: GitExecutionError.
PopenFails(message) ==
    /\ CanCall
    /\ run' = [NewCall EXCEPT !.pc = "raised", !.error = message]
    /\ UNCHANGED flowVars

\* subprocess.Popen starts git, which may start a helper.
Popen(helper, out, err, rc) ==
    /\ CanCall
    /\ run' = [NewCall EXCEPT !.child = "running", !.helper = helper,
                              !.out = out, !.err = err, !.rc = rc]
    /\ UNCHANGED flowVars

\* p.communicate(timeout=timeout_s) returns: git has exited and both pipes
\* are at end of file, which they are not while a helper holds them.
Communicate ==
    /\ run.pc = "communicate" /\ run.child = "running" /\ run.helper # "group"
    /\ run' = [run EXCEPT !.child = "exited", !.got = <<run.out, run.err>>,
                          !.exit_code = run.rc, !.pc = "ceiling"]
    /\ UNCHANGED flowVars

\* p.communicate(timeout=timeout_s) raises TimeoutExpired.
CommunicateTimeout ==
    /\ run.pc = "communicate"
    /\ run' = [run EXCEPT !.timed_out = TRUE, !.pc = "drain"]
    /\ UNCHANGED flowVars

\* p.communicate(timeout=timeout_s) raises another exception: the process is
\* killed and GitExecutionError raised.
CommunicateFails ==
    /\ run.pc = "communicate"
    /\ run' = [run EXCEPT !.error = "GitExecutionError: Failed while running git",
                          !.pc = "kill"]
    /\ UNCHANGED flowVars

\* p.communicate(timeout=0.2) returns: git exited within the grace period.
DrainReturns ==
    /\ run.pc = "drain" /\ run.child = "running" /\ run.helper # "group"
    /\ run' = [run EXCEPT !.child = "exited", !.got = <<run.out, run.err>>,
                          !.exit_code = TimeoutExitCode, !.pc = "kill"]
    /\ UNCHANGED flowVars

\* p.communicate(timeout=0.2) raises: out, err = ("", "").
DrainTimeout ==
    /\ run.pc = "drain"
    /\ run' = [run EXCEPT !.got = <<"", "">>, !.exit_code = TimeoutExitCode,
                          !.pc = "kill"]
    /\ UNCHANGED flowVars

\* After the kill: the reap wait on the timeout path, the raise of
\* GitExecutionError on the path of CommunicateFails.
after_kill == IF run.error # "" THEN "raised" ELSE "reap"

\* _kill_process_group_posix: os.killpg(p.pid, SIGKILL) reaches git and the
\* helper in its group, or raises and p.kill() is tried.
KillGroup(ok) ==
    /\ run.pc = "kill" /\ run.os = "posix"
    /\ run' = IF ok
              THEN [run EXCEPT !.child = IF @ = "running" THEN "killed" ELSE @,
                               !.helper = IF @ = "group" THEN "dead" ELSE @,
                               !.pc = after_kill]
              ELSE [run EXCEPT !.pc = "fallback"]
    /\ UNCHANGED flowVars

\* The fallback p.kill() reaches git alone, or raises and is swallowed.
KillFallback(ok) ==
    /\ run.pc = "fallback"
    /\ run' = [run EXCEPT !.child = IF ok /\ @ = "running" THEN "killed" ELSE @,
                          !.pc = after_kill]
    /\ UNCHANGED flowVars

\* _kill_process_tree_windows: subprocess.run starts taskkill and waits for
\* it, or cannot start it and raises; on the timeout path the exception
\* passes the finally clause, on the other path it is swallowed.
KillTree(started) ==
    /\ run.pc = "kill" /\ run.os = "nt"
    /\ run' = IF started THEN [run EXCEPT !.pc = "taskkill"]
              ELSE IF run.error # "" THEN [run EXCEPT !.pc = "raised"]
              ELSE [run EXCEPT !.error = "FileNotFoundError: taskkill", !.pc = "reap"]
    /\ UNCHANGED flowVars

\* taskkill exits: it has killed git and the helpers below it, or it has
\* failed (its exit code is not looked at).
TaskkillExits(ok) ==
    /\ run.pc = "taskkill"
    /\ run' = [run EXCEPT !.child = IF ok /\ @ = "running" THEN "killed" ELSE @,
                          !.helper = IF ok /\ @ = "group" THEN "dead" ELSE @,
                          !.pc = after_kill]
    /\ UNCHANGED flowVars

\* p.wait(timeout=0.5) reaps git or raises TimeoutExpired, which is
\* swallowed; then _run_process returns, or the exception of the kill goes on.
Reap ==
    /\ run.pc = "reap"
    /\ run' = [run EXCEPT !.pc = IF run.error # "" THEN "raised" ELSE "ceiling"]
    /\ UNCHANGED flowVars

\* run applies the ceiling and returns the result.
Return ==
    /\ run.pc = "ceiling"
    /\ LET c == _apply_output_ceiling(run.got[1], run.got[2], run.max_output_chars)
       IN  run' = [run EXCEPT !.result = GitRunResult(c[1], c[2], run.exit_code,
                                                      run.timed_out, c[3]),
                              !.pc = "returned"]
    /\ UNCHANGED flowVars

ProcInit ==
    /\ RepoInit
    /\ storeIgnored = FALSE
    /\ procs = [p \in Procs |-> Idle]
    /\ fs = NoStore
    /\ run \in {IdleRun(os, m) : os \in {"posix", "nt"}, m \in Budgets}

ProcNext ==
    \/ \E message \in {"GitExecutionError: git executable not found in PATH.",
                        "GitExecutionError: Failed to spawn git"} : PopenFails(message)
    \/ \E helper \in Helpers, out \in ChildOuts, err \in ChildErrs, rc \in {0, 1} :
          Popen(helper, out, err, rc)
    \/ Communicate
    \/ CommunicateTimeout
    \/ CommunicateFails
    \/ DrainReturns
    \/ DrainTimeout
    \/ \E ok \in BOOLEAN : KillGroup(ok)
    \/ \E ok \in BOOLEAN : KillFallback(ok)
    \/ \E started \in BOOLEAN : KillTree(started)
    \/ \E ok \in BOOLEAN : TaskkillExits(ok)
    \/ Reap
    \/ Return

ProcSpec == ProcInit /\ [][ProcNext]_vars

(***************************************************************************)
(* The store step by step: confirmations.py as concurrent callers on one   *)
(* root see it.  Every caller performs one operation; a step is one file   *)
(* system call (or the local computation up to the next one).              *)
(***************************************************************************)
\* The argument lists of the callers, and of the record a store that exists
\* at the start already holds.
StoredArgs == <<"commit", "-m", "msg">>
StepArgLists == {<<"add", "-A">>, <<"tag", "v1">>}

StoredRecord == pending_confirmation(repoPath, StoredArgs, NoOptions)

ExistingStore ==
    [db |-> 1, tmp |-> 0,
     content |-> <<Serialized(store_put(EmptyLedger, StoredRecord))>>,
     log |-> <<audit_line(now, "proposed", StoredRecord.confirmation_id,
                          StoredRecord.classification)>>]

\* One caller.  op: the operation; args: the args it proposes; id: the id it
\* proposes or executes; pc: its position; data: the mapping it loaded and
\* changed; fd: the inode it has open for writing; spawned: it has spawned
\* the confirmed command.
Caller(op, args, id) ==
    [op |-> op, args |-> args, id |-> id, pc |-> "ctor",
     data |-> EmptyLedger, fd |-> 0, spawned |-> FALSE]

StepOps ==
    { Caller("propose", args, new_confirmation_id(repoPath, now, args)) :
         args \in StepArgLists }
    \cup { Caller("execute", StoredArgs, StoredRecord.confirmation_id) }

\* Path.open("w"): the file is created, or truncated when it exists.
open_w(f, path) ==
    IF f[path] = 0
    THEN [f EXCEPT ![path] = Len(f.content) + 1,
                   !.content = Append(f.content, EmptyFile)]
    ELSE [f EXCEPT !.content[f[path]] = EmptyFile]

\* _load: the mapping the ledger file holds.
_load(f) == f.content[f.db].data

\* What the step-by-step view leaves alone.
callVars == <<now, envSteps, repoPath, head, branch, dirty, conflicts,
              storeExists, storeIgnored, ledger, audit, approved, last, run>>

At(p, pc) == procs[p].pc = pc
Goto(p, pc) == procs' = [procs EXCEPT ![p].pc = pc]

\* __init__: mkdir, then the test whether the ledger file exists.
CtorCheck(p) ==
    /\ At(p, "ctor")
    /\ UNCHANGED callVars
    /\ Goto(p, IF fs.db = 0 THEN "ctor_open"
               ELSE IF procs[p].op = "propose" THEN "put_load" ELSE "get")
    /\ UNCHANGED fs

\* __init__: write_text("{}") opens the ledger file ...
CtorOpen(p) ==
    /\ At(p, "ctor_open")
    /\ UNCHANGED callVars
    /\ fs' = open_w(fs, "db")
    /\ procs' = [procs EXCEPT ![p].pc = "ctor_write", ![p].fd = fs'.db]

\* ... and writes "{}" to it.
CtorWrite(p) ==
    /\ At(p, "ctor_write")
    /\ UNCHANGED callVars
    /\ fs' = [fs EXCEPT !.content[procs[p].fd] = Serialized(EmptyLedger)]
    /\ Goto(p, IF procs[p].op = "propose" THEN "put_load" ELSE "get")

\* put: data = self._load(); data[id] = asdict(c).
PutLoad(p) ==
    /\ At(p, "put_load")
    /\ UNCHANGED callVars
    /\ procs' = [procs EXCEPT
          ![p].pc = "save_open",
          ![p].data = store_put(_load(fs),
                                pending_confirmation(repoPath, procs[p].args, NoOptions))]
    /\ UNCHANGED fs

\* execute_confirmed: store.get and checks 1-6, with the correct phrase.
Get(p) ==
    /\ At(p, "get")
    /\ UNCHANGED callVars
    /\ LET got == store_get(_load(fs), procs[p].id) IN
       Goto(p, IF got = None THEN "rejected"
               ELSE IF ~root_ok(got[1], repoPath) THEN "rejected"
               ELSE IF ~can_use(got[1], now) THEN "rejected"
               ELSE IF ~phrase_ok("I CONFIRM " \o procs[p].id, procs[p].id) THEN "rejected"
               ELSE IF ~hash_ok(got[1]) THEN "rejected"
               ELSE IF _check_preconditions(got[1].preconditions, TRUE) # Ok
               THEN "rejected"
               ELSE "run")
    /\ UNCHANGED fs

\* execute_confirmed: runner.run(args, read_only=False), then require_ok.
Run(p) ==
    /\ At(p, "run")
    /\ UNCHANGED callVars
    /\ \E exit \in {0, 1} :
          procs' = [procs EXCEPT
             ![p].spawned = TRUE,
             ![p].pc = IF marks_used(exit) THEN "mark_load" ELSE "raised"]
    /\ UNCHANGED fs

\* mark_used: data = self._load(); return when the id is absent; used += 1.
MarkLoad(p) ==
    /\ At(p, "mark_load")
    /\ UNCHANGED callVars
    /\ IF procs[p].id \notin DOMAIN _load(fs)
       THEN Goto(p, "returned")
       ELSE procs' = [procs EXCEPT
               ![p].pc = "save_open",
               ![p].data = store_mark_used(_load(fs), procs[p].id)]
    /\ UNCHANGED fs

\* _save: tmp.write_text(...) opens the temp file ...
SaveOpen(p) ==
    /\ At(p, "save_open")
    /\ UNCHANGED callVars
    /\ fs' = open_w(fs, "tmp")
    /\ procs' = [procs EXCEPT ![p].pc = "save_write", ![p].fd = fs'.tmp]

\* ... and writes the JSON text to the file it opened.
SaveWrite(p) ==
    /\ At(p, "save_write")
    /\ UNCHANGED callVars
    /\ fs' = [fs EXCEPT !.content[procs[p].fd] = Serialized(procs[p].data)]
    /\ Goto(p, "save_replace")

\* _save: tmp.replace(self._db); FileNotFoundError when the temp path is gone.
SaveReplace(p) ==
    /\ At(p, "save_replace")
    /\ UNCHANGED callVars
    /\ IF fs.tmp = 0
       THEN Goto(p, "raised") /\ UNCHANGED fs
       ELSE fs' = [fs EXCEPT !.db = fs.tmp, !.tmp = 0] /\ Goto(p, "audit")

\* audit: one line appended to audit.jsonl.
AuditAppend(p) ==
    /\ At(p, "audit")
    /\ UNCHANGED callVars
    /\ fs' = [fs EXCEPT !.log =
                 store_audit(fs.log,
                    IF procs[p].op = "propose"
                    THEN audit_line(now, "proposed", procs[p].id,
                                    classify_git_args(procs[p].args))
                    ELSE audit_line(now, "executed", procs[p].id, [exit_code |-> 0]))]
    /\ Goto(p, "done")

\* The caller's process dies between two steps.
Crash(p) ==
    /\ procs[p].pc \notin {"done", "returned", "rejected", "raised", "crashed"}
    /\ UNCHANGED callVars
    /\ Goto(p, "crashed")
    /\ UNCHANGED fs

StepInit ==
    /\ RepoInit
    /\ storeIgnored = TRUE
    /\ fs \in {NoStore, ExistingStore}
    /\ procs \in [Procs -> StepOps]
    /\ run = IdleRun("posix", DefaultMaxOutputChars)

StepNext ==
    \E p \in Procs :
       \/ CtorCheck(p)
       \/ CtorOpen(p)
       \/ CtorWrite(p)
       \/ PutLoad(p)
       \/ Get(p)
       \/ Run(p)
       \/ MarkLoad(p)
       \/ SaveOpen(p)
       \/ SaveWrite(p)
       \/ SaveReplace(p)
       \/ AuditAppend(p)
       \/ Crash(p)

StepSpec == StepInit /\ [][StepNext]_vars

(***************************************************************************)
(* The callers step by step while other users of the repository commit and *)
(* switch branch: nothing in execute_confirmed holds the repository        *)
(* between _check_preconditions and runner.run.  The store holds a record  *)
(* proposed on main with expected_branch set.                              *)
(***************************************************************************)
BranchOption == [expected_branch |-> Some("main"), require_clean |-> FALSE]

RaceStore ==
    LET c == pending_confirmation(repoPath, StoredArgs, BranchOption) IN
    [db |-> 1, tmp |-> 0,
     content |-> <<Serialized(store_put(EmptyLedger, c))>>,
     log |-> <<audit_line(now, "proposed", c.confirmation_id, c.classification)>>]

RaceInit ==
    /\ RepoInit
    /\ storeIgnored = TRUE
    /\ fs \in {NoStore, RaceStore}
    /\ procs \in [Procs -> StepOps]
    /\ run = IdleRun("posix", DefaultMaxOutputChars)

RaceNext ==
    \/ StepNext
    \/ Commit
    \/ \E b \in Branches : Checkout(b)

RaceSpec == RaceInit /\ [][RaceNext]_vars

(***************************************************************************)
(* Vocabulary of the properties.                                           *)
(***************************************************************************)
IsExecute == last.op = "execute"
IsPropose == last.op = "propose"
Failed == last.result # Ok
NeverRan == ~last.ran /\ ~last.spawned

\* The confirmation phrase of an id, as the proposal shows it.
ConfirmPhrase(id) == "I CONFIRM " \o id

\* Leading and trailing whitespace a caller may add around a phrase.
Padding == {"", " ", "\t", "\n", " \t", " \n"}

\* s is the phrase of id once leading and trailing whitespace is removed.
IsConfirmPhrase(s, id) ==
    \E a \in Padding, b \in Padding : s = a \o ConfirmPhrase(id) \o b

\* The last call was made on the repository and its store holds the id; the
\* record it found there.
Known == last.root = last.pre.path /\ last.pre.rec # None
Rec == last.pre.rec[1]

\* Some line i <= n of the audit log says that id was executed.
ExecutedWithin(n, id) ==
    \E i \in 1..n : audit[i].action = "executed" /\ audit[i].confirmation_id = id

\* The six checks of execute, on the state the last call started in.
Check1_Known == Known
Check2_Root == Rec.root = last.root
Check3_CanUse == last.pre.now <= Rec.expires_at /\ Rec.used < Rec.max_uses
Check4_Phrase == IsConfirmPhrase(last.phrase, last.id)
Check5_Hash == command_hash(Rec.args) = Rec.cmd_hash
BranchHolds == Rec.preconditions.expected_branch # None
                  => last.pre.branch = Rec.preconditions.expected_branch[1]
HeadHolds == Rec.preconditions.expected_head # None
                  => last.pre.head = Rec.preconditions.expected_head[1]
CleanHolds == Rec.preconditions.require_clean => last.pre.status = ""
NoConflictsHolds == Rec.preconditions.require_no_conflicts => last.pre.unmerged = ""
Check6_Preconditions == BranchHolds /\ HeadHolds /\ CleanHolds /\ NoConflictsHolds
Checks1to5 ==
    Check1_Known /\ Check2_Root /\ Check3_CanUse /\ Check4_Phrase /\ Check5_Hash

(***************************************************************************)
(* C1.  One-time use: once an execute of an id has succeeded (an           *)
(* 'executed' line for the id is in the audit log), every later execute    *)
(* with that id and the correct phrase fails and does not run the command, *)
(* whatever propose and execute calls came between.                        *)
(* Refuted: a propose with the same root and args in the same clock second *)
(* computes the same id, and store.put overwrites the used record with a   *)
(* fresh one (used = 0).                                                   *)
(***************************************************************************)
C1_OneTimeUse ==
    (/\ IsExecute
     /\ Check4_Phrase
     /\ ExecutedWithin(last.pre.lines, last.id))
    => (Failed /\ NeverRan)

(***************************************************************************)
(* C2.  No partial application: an execute call invokes the runner in      *)
(* write mode only if all six checks passed in that call; when any check   *)
(* fails the call fails and the runner is never invoked in write mode.     *)
(***************************************************************************)
C2_NoPartialApplication ==
    IsExecute =>
        /\ last.ran => (Checks1to5 /\ Check6_Preconditions)
        /\ ~(Checks1to5 /\ Check6_Preconditions) => (Failed /\ NeverRan)
        /\ last.spawned => last.ran

\* An execute passed checks 1-5, broke a precondition and ran nothing.
C2_Witness ==
    /\ IsExecute /\ Checks1to5 /\ ~Check6_Preconditions /\ last.gitOk
    /\ Failed /\ NeverRan

(***************************************************************************)
(* C3.  For every argument list whose first element, compared              *)
(* case-insensitively, is in the deny-set, classify returns risk critical  *)
(* and propose fails, adding no record to the ledger and no line to the    *)
(* audit log, in every repository state.                                   *)
(***************************************************************************)
DenySet == {"reset", "clean", "rebase", "commit-tree", "update-ref", "push", "fetch", "gc"}

DeniedArgs(args) == Len(args) > 0 /\ Lower(args[1]) \in DenySet

C3_DenySetRejected ==
    (IsPropose /\ DeniedArgs(last.args)) =>
        /\ classify_git_args(last.args).risk = "critical"
        /\ Failed
        /\ DOMAIN ledger = last.pre.ids
        /\ store_get(ledger, last.id) = last.pre.rec
        /\ Len(audit) = last.pre.lines

\* A deny-set verb in upper case was proposed on a repository that already
\* has a pending confirmation and a moved HEAD.
C3_Witness ==
    /\ IsPropose /\ last.args = <<"PUSH", "origin">>
    /\ last.root = repoPath
    /\ last.pre.ids # {} /\ head > 0
    /\ Failed

(***************************************************************************)
(* C4.  execute runs the confirmed command only if the userConfirmation,   *)
(* with leading and trailing whitespace removed, is exactly "I CONFIRM "   *)
(* followed by the id (case-sensitive); for every other string it fails    *)
(* and the command is never run.                                           *)
(***************************************************************************)
C4_PhraseExact ==
    IsExecute =>
        /\ last.ran => IsConfirmPhrase(last.phrase, last.id)
        /\ ~IsConfirmPhrase(last.phrase, last.id) => (Failed /\ NeverRan)

\* A phrase padded with whitespace was accepted and the command spawned.
C4_Witness ==
    /\ IsExecute /\ last.phrase # ConfirmPhrase(last.id)
    /\ IsConfirmPhrase(last.phrase, last.id)
    /\ last.spawned

(***************************************************************************)
(* C5.  Tamper detection: when the args stored for a confirmation were     *)
(* changed after propose (cmd_hash left as written), execute with the      *)
(* correct phrase fails and runs neither command; the failure is the       *)
(* hash-mismatch error when the checks before it pass and the recomputed   *)
(* hash differs.                                                           *)
(* Refuted: the hash is taken over the newline-joined list, and            *)
(* ["commit","-m","fix\n--amend"] joins to the same text as                *)
(* ["commit","-m","fix","--amend"].                                        *)
(***************************************************************************)
Tampered == Known /\ last.id \in DOMAIN approved /\ Rec.args # approved[last.id].args

C5_TamperDetected ==
    (IsExecute /\ Check4_Phrase /\ Tampered) =>
        /\ Failed /\ NeverRan
        /\ (Check2_Root /\ Check3_CanUse /\ ~Check5_Hash)
              => last.result = "ValueError: Command hash mismatch (tampering detected)."

(***************************************************************************)
(* C6.  HEAD precondition: propose records the HEAD of the repository at   *)
(* proposal time as expected_head; an execute that finds another HEAD      *)
(* fails without running the command; with HEAD unchanged and every other  *)
(* check passing (git answering the queries), execute runs the command.    *)
(***************************************************************************)
C6_HeadPrecondition ==
    /\ (IsPropose /\ ~Failed) =>
          /\ last.id \in DOMAIN ledger
          /\ ledger[last.id].preconditions.expected_head = Some(last.pre.head)
    /\ (IsExecute /\ Known) =>
          /\ Rec.preconditions.expected_head # None
          /\ ~HeadHolds => (Failed /\ NeverRan)
          /\ (HeadHolds /\ Checks1to5 /\ BranchHolds /\ CleanHolds
                /\ NoConflictsHolds /\ last.gitOk) => last.ran

\* A commit landed after the proposal; the execute, otherwise in order,
\* was refused.
C6_Witness ==
    /\ IsExecute /\ Checks1to5 /\ ~HeadHolds
    /\ BranchHolds /\ CleanHolds /\ NoConflictsHolds /\ last.gitOk
    /\ last.result = "ValueError: HEAD changed since approval."
    /\ NeverRan

(***************************************************************************)
(* C7.  Every record propose stores requires no conflicts, and execute     *)
(* fails without running the command when a configured precondition does   *)
(* not hold at execute time: the branch differs from expected_branch (when *)
(* set), HEAD differs from expected_head (when set), the working tree      *)
(* reports changes (when require_clean), unmerged paths exist (when        *)
(* require_no_conflicts).                                                  *)
(***************************************************************************)
C7_PreconditionsEnforced ==
    /\ \A id \in DOMAIN ledger : ledger[id].preconditions.require_no_conflicts
    /\ (IsExecute /\ Known) =>
          /\ ~BranchHolds => (Failed /\ NeverRan)
          /\ ~HeadHolds => (Failed /\ NeverRan)
          /\ ~CleanHolds => (Failed /\ NeverRan)
          /\ ~NoConflictsHolds => (Failed /\ NeverRan)

\* Unmerged paths alone stopped an execute that was otherwise in order.
C7_Witness ==
    /\ IsExecute /\ Checks1to5 /\ last.gitOk
    /\ BranchHolds /\ HeadHolds /\ CleanHolds /\ ~NoConflictsHolds
    /\ last.result = "ValueError: Unmerged/conflicted files detected."
    /\ NeverRan

(***************************************************************************)
(* C8.  Expiry: every record in the ledger has expires_at = created_at +   *)
(* 1800; an execute whose clock reading is greater than expires_at fails   *)
(* without running the command, whatever used is; and, the clock never     *)
(* going back, a record that is expired stays in the ledger and unusable   *)
(* after every step.                                                       *)
(***************************************************************************)
Expired(data, id, t) == id \in DOMAIN data /\ t > data[id].expires_at

C8_Expiry ==
    [][ /\ \A id \in DOMAIN ledger' :
              ledger'[id].expires_at = ledger'[id].created_at + 1800
        /\ now' >= now
        /\ (last'.op = "execute" /\ Expired(ledger, last'.id, now))
              => (last'.result # Ok /\ ~last'.ran /\ ~last'.spawned)
        /\ \A id \in DOMAIN ledger :
              Expired(ledger, id, now)
                 => (Expired(ledger', id, now') /\ ~can_use(ledger'[id], now'))
      ]_vars

\* An unused, expired token was presented with the right phrase and refused.
C8_Witness ==
    /\ IsExecute /\ Known /\ Check2_Root /\ Check4_Phrase
    /\ last.pre.now > Rec.expires_at /\ Rec.used = 0
    /\ last.result = "ValueError: Token expired or already used."
    /\ NeverRan

(***************************************************************************)
(* C9.  can_use is true exactly when now <= expires_at and used <          *)
(* max_uses: for every record at every clock value of the model, and as    *)
(* execute applies it (check 3 passes exactly then); a token is usable at  *)
(* now = expires_at and unusable at now = expires_at + 1.                  *)
(***************************************************************************)
Usable(c, t) == t <= c.expires_at /\ c.used < c.max_uses

C9_CanUse ==
    /\ \A id \in DOMAIN ledger :
          /\ can_use(ledger[id], now) = Usable(ledger[id], now)
          /\ can_use(ledger[id], ledger[id].expires_at)
                = (ledger[id].used < ledger[id].max_uses)
          /\ ~can_use(ledger[id], ledger[id].expires_at + 1)
    /\ (IsExecute /\ Known /\ Check2_Root) =>
          ((last.result = "ValueError: Token expired or already used.")
              = ~Usable(Rec, last.pre.now))

\* At the very second of expiry the token was accepted and the command ran.
C9_Witness ==
    /\ IsExecute /\ Known
    /\ last.pre.now = Rec.expires_at
    /\ last.spawned /\ ~Failed

(***************************************************************************)
(* C10.  When execute passes all validation and the confirmed command is   *)
(* spawned but exits non-zero (a timeout is exit code 124), execute raises *)
(* the execution error and the attempt counts against the confirmation:    *)
(* used is incremented, so the token cannot run the command again.         *)
(* Refuted: require_ok raises before store.mark_used is reached, so used   *)
(* stays 0 and the same token spawns the command again.                    *)
(***************************************************************************)
C10_FailedRunCounts ==
    (IsExecute /\ last.spawned /\ last.exit # 0) =>
        /\ last.result = GitFailed("execute_confirmed(run)")
        /\ last.id \in DOMAIN ledger
        /\ ledger[last.id].used = Rec.used + 1
        /\ ~can_use(ledger[last.id], now)

(***************************************************************************)
(* C11.  Under every interleaving of concurrent execute calls for one      *)
(* confirmation id with the correct phrase, the confirmed command is       *)
(* spawned in write mode at most once for that id.                         *)
(* Refuted: nothing serializes the callers; two of them read used = 0      *)
(* before either reaches mark_used, and both spawn the command.            *)
(***************************************************************************)
\* The callers whose run of the command of id was spawned and exited 0.
SpawnedBy(id) ==
    {p \in Procs : /\ procs[p].op = "execute" /\ procs[p].id = id
                   /\ procs[p].spawned /\ procs[p].pc # "raised"}

C11_SpawnedAtMostOnce ==
    \A p \in Procs : Cardinality(SpawnedBy(procs[p].id)) <= 1

(***************************************************************************)
(* C12.  When two concurrent store writes on one root have both completed  *)
(* (put/put, put/mark_used on different ids, mark_used/mark_used), the     *)
(* ledger holds both updates: the record of every completed put is there,  *)
(* and used of an id counts every completed mark_used of it.               *)
(* Refuted: put and mark_used are load, change, save without a lock; the   *)
(* writer that saves last writes back the mapping it loaded before the     *)
(* other writer saved.                                                     *)
(***************************************************************************)
Completed(p) == procs[p].pc = "done"

MarkedBy(id) == {p \in Procs : procs[p].op = "execute" /\ procs[p].id = id /\ Completed(p)}

C12_NoLostUpdate ==
    (\A p \in Procs : Completed(p)) =>
        \A p \in Procs :
           /\ procs[p].id \in DOMAIN _load(fs)
           /\ procs[p].op = "propose" => _load(fs)[procs[p].id].args = procs[p].args
           /\ procs[p].op = "execute" =>
                 _load(fs)[procs[p].id].used = Cardinality(MarkedBy(procs[p].id))

(***************************************************************************)
(* C13.  At every instant (a crash at any step of a ledger write, the      *)
(* first creation of the ledger by the constructor, two writers in _save   *)
(* at once) the ledger file, once it exists, holds one complete            *)
(* serialization of a mapping, and no record it holds disappears.          *)
(* Refuted: write_text truncates before it writes, in the constructor and  *)
(* on the temp path both writers share; a rename by one writer publishes   *)
(* the file the other has just truncated, and a constructor that saw no    *)
(* ledger truncates the one created meanwhile.                             *)
(***************************************************************************)
C13_LedgerAlwaysComplete ==
    fs.db # 0 => fs.content[fs.db].complete

(***************************************************************************)
(* C14.  The audit log is append-only: every step leaves the lines it had  *)
(* unchanged as a prefix of the new log; a completed put appends exactly   *)
(* one 'proposed' line for its id, a completed mark_used on an existing    *)
(* record exactly one 'executed' line for its id, and no other step adds,  *)
(* rewrites or deletes a line.                                             *)
(***************************************************************************)
IsPrefix(s, t) == Len(s) <= Len(t) /\ SubSeq(t, 1, Len(s)) = s

AppendsOne(action, id) ==
    /\ Len(audit') = Len(audit) + 1
    /\ audit'[Len(audit')].action = action
    /\ audit'[Len(audit')].confirmation_id = id
    /\ audit'[Len(audit')].ts = now

C14_AuditAppendOnly ==
    [][ /\ IsPrefix(audit, audit')
        /\ IF last'.op = "propose" /\ last'.result = Ok
           THEN AppendsOne("proposed", last'.id)
           ELSE IF last'.op = "execute" /\ last'.spawned /\ last'.exit = 0
           THEN AppendsOne("executed", last'.id)
           ELSE audit' = audit
      ]_vars

\* A confirmed command has run: its 'executed' line follows the 'proposed'
\* lines of two proposals.
C14_Witness ==
    /\ IsExecute /\ ~Failed
    /\ Len(audit) = 3 /\ last.pre.lines = 2
    /\ audit[1].action = "proposed" /\ audit[2].action = "proposed"
    /\ audit[3] = audit_line(now, "executed", last.id, [exit_code |-> 0])

(***************************************************************************)
(* C15.  A confirmation is scoped to its root: an execute called with a    *)
(* root other than the one the token was proposed for fails and runs       *)
(* nothing, whether that root is no directory or is a directory whose      *)
(* store holds the record (the repository was moved there).                *)
(***************************************************************************)
C15_RootScoped ==
    (IsExecute /\ last.pre.rec # None /\ Rec.root # last.root) =>
        (Failed /\ NeverRan)

\* The repository was moved after the proposal; the token, unused, unexpired
\* and presented with the right phrase at the new path, was refused.
C15_Witness ==
    /\ IsExecute /\ last.pre.rec # None
    /\ last.root = last.pre.path /\ Rec.root # last.root
    /\ Check3_CanUse /\ Check4_Phrase /\ Check5_Hash /\ Check6_Preconditions
    /\ last.result = "ValueError: Token repo_root mismatch."
    /\ NeverRan

(***************************************************************************)
(* C16.  Over every sequence of propose, execute and informational calls   *)
(* the runner is invoked in write mode only by execute, after its six      *)
(* checks have passed: propose never runs the proposed command, and every  *)
(* informational tool runs its commands in read-only mode.                 *)
(***************************************************************************)
IsInfo == last.op = "info"

C16_WriteModeOnlyInExecute ==
    /\ last.ran => (IsExecute /\ Checks1to5 /\ Check6_Preconditions)
    /\ IsPropose => NeverRan
    /\ IsInfo => ~last.ran
    /\ (IsPropose \/ IsInfo) => last.pre.head = RevParseHead

\* With a confirmation pending, an informational tool ran its command, in
\* read-only mode.
C16_Witness ==
    /\ IsInfo /\ last.pre.ids # {}
    /\ last.spawned /\ ~last.ran /\ ~Failed

(***************************************************************************)
(* C17.  What was approved is what runs: the argument list execute passes  *)
(* to the runner in write mode for an id is exactly the list given to the  *)
(* propose call that created the id, first or latest, over every sequence  *)
(* of calls without edits of the ledger from outside.                      *)
(* Refuted: the id hashes root, second and the newline-joined args; a      *)
(* second propose in the same second with ["commit","-m","fix","--amend"]  *)
(* gets the id of ["commit","-m","fix\n--amend"] and put overwrites the    *)
(* record, so the phrase shown for the first proposal runs the second.     *)
(***************************************************************************)
C17_ApprovedIsWhatRuns ==
    (IsExecute /\ last.ran) =>
        /\ last.id \in DOMAIN approved
        /\ last.args = approved[last.id].args
        /\ last.args = approved[last.id].first

(***************************************************************************)
(* C18.  A validation failure of execute (unknown id, expired or used      *)
(* token, wrong phrase, hash mismatch, precondition violation) is final    *)
(* for the confirmation: the next execute with that id, no propose in      *)
(* between, does not succeed.                                              *)
(* Refuted: a failed execute records nothing; after a wrong phrase the     *)
(* same token succeeds with the right one.                                 *)
(***************************************************************************)
ValidationFailures ==
    { "ValueError: Unknown confirmation_id.",
      "ValueError: Token expired or already used.",
      "ValueError: Invalid confirmation phrase.",
      "ValueError: Command hash mismatch (tampering detected).",
      "ValueError: Branch changed",
      "ValueError: HEAD changed since approval.",
      "ValueError: Working tree is not clean.",
      "ValueError: Unmerged/conflicted files detected." }

C18_FailureIsFinal ==
    [][ (/\ last.op = "execute" /\ last.result \in ValidationFailures
         /\ last'.op = "execute" /\ last'.id = last.id)
        => last'.result # Ok
      ]_vars

(***************************************************************************)
(* C19.  For the empty argument list run fails with the policy error, in   *)
(* read-only mode and in write mode, and no process is spawned.            *)
(***************************************************************************)
IsRun == last.op = "run"

C19_EmptyArgsRejected ==
    (IsRun /\ last.args = <<>>) =>
        /\ last.result = "GitPolicyError: Empty git args are not allowed."
        /\ ~last.spawned

\* run([], read_only=False) was refused.
C19_Witness ==
    /\ IsRun /\ last.args = <<>> /\ last.ran
    /\ last.result = "GitPolicyError: Empty git args are not allowed."
    /\ ~last.spawned

(***************************************************************************)
(* C20.  For every non-empty argument list whose first element, trimmed    *)
(* and lower-cased, is not in the read-only allowlist, run in read-only    *)
(* mode raises the policy error before any process is spawned, and run of  *)
(* the same list in write mode is not rejected by policy.                  *)
(***************************************************************************)
Allowlist ==
    {"rev-parse", "status", "log", "diff", "show", "branch", "remote", "config",
     "ls-files", "cat-file", "describe", "tag", "grep", "blame", "ls-tree",
     "merge-base"}

IsPolicyError(result) == Len(result) >= 14 /\ SubSeq(result, 1, 14) = "GitPolicyError"

C20_ReadOnlyAllowlist ==
    (IsRun /\ Len(last.args) > 0 /\ Lower(Strip(last.args[1])) \notin Allowlist) =>
        IF last.ran
        THEN last.result = Ok /\ last.spawned
        ELSE IsPolicyError(last.result) /\ ~last.spawned

\* A verb outside the allowlist, in upper case, was refused in read-only
\* mode.
C20_Witness ==
    /\ IsRun /\ last.args = <<"PUSH">> /\ ~last.ran
    /\ IsPolicyError(last.result) /\ ~last.spawned

(***************************************************************************)
(* C21.  As stated: for every argument list whose verb is in the read-only *)
(* allowlist and that contains none of the dangerous flags, run in         *)
(* read-only mode raises no policy error and returns the result of the     *)
(* command.  As amended: the same, for the lists that none of the          *)
(* sub-policies of branch, tag, remote and config rejects.                 *)
(***************************************************************************)
ReadOnlyRun == IsRun /\ ~last.ran /\ Len(last.args) > 0

Verb == Lower(Strip(last.args[1]))

DangerousFlags ==
    {"--global", "--system", "--unset", "--unset-all", "--add", "--replace-all",
     "--delete", "--force", "-f"}

\* Some element of the list, trimmed and lower-cased, is one of the flags.
HasFlag(flags) == \E i \in 1..Len(last.args) : Lower(Strip(last.args[i])) \in flags

BranchDelete == Verb = "branch" /\ HasFlag({"-d", "--delete"})
TagDelete == Verb = "tag" /\ HasFlag({"-d", "--delete"})
RemoteMutation ==
    /\ Verb = "remote" /\ Len(last.args) >= 2
    /\ Lower(Strip(last.args[2])) \in {"set-url", "add", "remove", "rename"}
ConfigWrite == Verb = "config" /\ Len(last.args) >= 3
SubPolicyHit == BranchDelete \/ TagDelete \/ RemoteMutation \/ ConfigWrite

Returned == last.result = Ok /\ last.spawned
Refused == IsPolicyError(last.result) /\ ~last.spawned

C21_AsStated ==
    (ReadOnlyRun /\ Verb \in Allowlist /\ ~HasFlag(DangerousFlags)) => Returned

C21_SafeReadsRun ==
    (ReadOnlyRun /\ Verb \in Allowlist /\ ~HasFlag(DangerousFlags) /\ ~SubPolicyHit)
        => Returned /\ last.exit \in {0, 1}

\* config with one argument ran in read-only mode and git exited 0.
C21_Witness ==
    /\ ReadOnlyRun /\ last.args = <<" Config\t", "k">>
    /\ Returned /\ last.exit = 0

(***************************************************************************)
(* C22.  For every argument list with an allowlisted verb, if any element  *)
(* at any position, trimmed and lower-cased, is one of the nine dangerous  *)
(* flags, run in read-only mode raises the policy error and spawns no      *)
(* process.                                                                *)
(***************************************************************************)
C22_DangerousFlagsRefused ==
    (ReadOnlyRun /\ Verb \in Allowlist /\ HasFlag(DangerousFlags)) => Refused

\* --force, in upper case, padded and in the fourth position, was refused.
C22_Witness ==
    /\ ReadOnlyRun /\ last.args = <<"log", "x", "y", " --FORCE\n">>
    /\ Refused

(***************************************************************************)
(* C23.  In read-only mode run raises the policy error for branch with an  *)
(* element -d, -D or --delete, for tag with an element -d or --delete, for *)
(* remote whose second element is set-url, add, remove or rename, and for  *)
(* config followed by two or more arguments; config followed by at most    *)
(* one argument and remote with any other second element are not rejected  *)
(* by these sub-policies.  Elements are compared trimmed and lower-cased.  *)
(***************************************************************************)
C23_SubPolicies ==
    ReadOnlyRun =>
        /\ SubPolicyHit => Refused
        /\ (Verb \in {"config", "remote"} /\ ~ConfigWrite /\ ~RemoteMutation
               /\ ~HasFlag(DangerousFlags)) => Returned

\* tag -D was refused, though -D is no dangerous flag.
C23_Witness ==
    /\ ReadOnlyRun /\ last.args = <<"tag", "-D">>
    /\ ~HasFlag(DangerousFlags) /\ Refused

(***************************************************************************)
(* C28.  classify maps every argument list by its first element compared   *)
(* case-insensitively, the deny set first: a deny-set verb (push, fetch    *)
(* and gc among them) is destructive/critical; else pull, clone, ls-remote *)
(* and submodule are network/high; else add, rm, mv, tag, branch and stash *)
(* are write/medium and commit, merge, cherry-pick and revert write/high;  *)
(* every other verb and the empty list are read/low.                       *)
(***************************************************************************)
ClaimedClass(args) ==
    IF Len(args) = 0 THEN <<"read", "low">>
    ELSE LET v == Lower(args[1]) IN
         IF v \in DenySet THEN <<"destructive", "critical">>
         ELSE IF v \in {"pull", "clone", "ls-remote", "submodule"} THEN <<"network", "high">>
         ELSE IF v \in {"add", "rm", "mv", "tag", "branch", "stash"} THEN <<"write", "medium">>
         ELSE IF v \in {"commit", "merge", "cherry-pick", "revert"} THEN <<"write", "high">>
         ELSE <<"read", "low">>

\* What propose shows of the classification: a critical one in the error it
\* raises, any other in the record it stores.
ShownClass ==
    IF last.result = Ok
    THEN <<ledger[last.id].classification.kind, ledger[last.id].classification.risk>>
    ELSE IF Len(last.args) > 0
            /\ last.result = "ValueError: Command rejected: Denied subcommand: "
                                 \o Lower(last.args[1])
    THEN <<"destructive", "critical">>
    ELSE <<"none", "none">>

C28_Classify ==
    (IsPropose /\ last.root = last.pre.path /\ last.gitOk) =>
        ShownClass = ClaimedClass(last.args)

\* propose(["Ls-Remote"]) stored a record classified network/high.
C28_Witness ==
    /\ IsPropose /\ last.args = <<"Ls-Remote">> /\ last.result = Ok
    /\ ShownClass = <<"network", "high">>

(***************************************************************************)
(* C24.  When the child process does not finish within the timeout, run    *)
(* does not raise: it returns a result with timed_out true and exit code   *)
(* 124 that carries the output the last drain collected; every result      *)
(* returned without a timeout has timed_out false and the exit code of the *)
(* child.                                                                  *)
(***************************************************************************)
RunReturned == run.pc = "returned"
RunRaised == run.pc = "raised"

\* The result carries what _run_process collected, cut by the ceiling.
CarriesCollected ==
    /\ IsPrefix(run.result.stdout, run.got[1])
    /\ IsPrefix(run.result.stderr, run.got[2])

C24_TimeoutReported ==
    /\ run.timed_out => ~RunRaised
    /\ RunReturned =>
          /\ CarriesCollected
          /\ IF run.timed_out
             THEN run.result.timed_out /\ run.result.exit_code = 124
             ELSE ~run.result.timed_out /\ run.result.exit_code = run.rc

(***************************************************************************)
(* C25.  Whenever run returns a result with timed_out true, the child      *)
(* process and every descendant it spawned have been terminated before the *)
(* return, also when the kill of the process group fails and the fallback  *)
(* kill of the process handle is used.                                     *)
(***************************************************************************)
ChildTerminated == run.child \in {"none", "exited", "killed"}
HelperTerminated == run.helper \in {"none", "dead"}

C25_AllTerminated ==
    (RunReturned /\ run.result.timed_out) => ChildTerminated /\ HelperTerminated

(***************************************************************************)
(* C26.  run always terminates after a timeout: every call it blocks in    *)
(* from then on (the drain, the kill through the helper command on         *)
(* Windows, the reap wait) is bounded by a timeout of its own, so that     *)
(* neither a failing kill nor a child that cannot be reaped makes it hang. *)
(***************************************************************************)
BlockingPositions == {"communicate", "drain", "taskkill", "reap"}

C26_CleanupBounded ==
    (run.timed_out /\ run.pc \in BlockingPositions) => blocking_timeout(run.pc) # None

(***************************************************************************)
(* C27.  As stated: for every configured integer max_output_chars and      *)
(* every captured pair, the result of run has                              *)
(* len(stdout) + len(stderr) <= max_output_chars, and the ceiling applied  *)
(* to the same pair with the same budget yields the same triple.           *)
(* As amended: the same with the bound max(1, max_output_chars).           *)
(***************************************************************************)
ResultLen == Len(run.result.stdout) + Len(run.result.stderr)

ResultTriple == <<run.result.stdout, run.result.stderr, run.result.output_truncated>>

\* The call before captured the same pair (the budget of a runner is fixed).
SamePairAsBefore == run.prev # NoResult /\ run.prev.got = run.got

SameTripleAsBefore == SamePairAsBefore => ResultTriple = run.prev.triple

C27_AsStated ==
    RunReturned => ResultLen <= run.max_output_chars /\ SameTripleAsBefore

C27_CeilingBound ==
    RunReturned =>
        /\ ResultLen <= (IF run.max_output_chars >= 1 THEN run.max_output_chars ELSE 1)
        /\ SameTripleAsBefore

\* Nine characters were captured twice, once before the timeout and once by
\* the drain after it, under a budget of three: both results hold three.
C27_Witness ==
    /\ RunReturned /\ run.max_output_chars = 3 /\ run.got = <<"abcde", "wxyz">>
    /\ SamePairAsBefore /\ run.timed_out
    /\ ResultLen = 3 /\ ResultTriple = run.prev.triple

(***************************************************************************)
(* C30.  As stated: when the combined captured length exceeds the budget   *)
(* max, the ceiling keeps the first min(len(stderr), floor(max / 2))       *)
(* characters of stderr and the first max minus that many characters of    *)
(* stdout (all of stdout if it is shorter) and sets output_truncated; when *)
(* the combined length is at most the budget both strings are returned     *)
(* unchanged with output_truncated false.  As amended: the same with the   *)
(* budget max(1, max_output_chars).                                        *)
(***************************************************************************)
FirstChars(str, n) == IF n >= Len(str) THEN str ELSE SubSeq(str, 1, n)

\* The triple the claim describes for the captured pair under a budget.
ClaimedTriple(budget) ==
    LET stdout == run.got[1]
        stderr == run.got[2]
        kept == IF Len(stderr) <= budget \div 2 THEN Len(stderr) ELSE budget \div 2
    IN  IF Len(stdout) + Len(stderr) > budget
        THEN <<FirstChars(stdout, budget - kept), FirstChars(stderr, kept), TRUE>>
        ELSE <<stdout, stderr, FALSE>>

C30_AsStated == RunReturned => ResultTriple = ClaimedTriple(run.max_output_chars)

C30_CeilingSplit ==
    RunReturned =>
        ResultTriple = ClaimedTriple(IF run.max_output_chars >= 1
                                     THEN run.max_output_chars ELSE 1)

\* Budget 5, stdout "ab" and stderr "wxyz": stderr is cut to two characters
\* though stdout leaves room for three.
C30_Witness ==
    /\ RunReturned /\ run.max_output_chars = 5 /\ run.got = <<"ab", "wxyz">>
    /\ ResultTriple = <<"ab", "wx", TRUE>>

(***************************************************************************)
(* C29.  Constructing a runner, and therefore propose, execute and every   *)
(* informational tool, on a root path that does not exist or is not a      *)
(* directory fails with InvalidRootError before any process is spawned and *)
(* before any store directory, ledger or audit file is created or changed. *)
(***************************************************************************)
IsInvalidRoot(result) ==
    result \in {"InvalidRootError: Root does not exist",
                "InvalidRootError: Root is not a directory"}

\* The step is a call on a path that is not the repository directory.
CallOnBadRoot ==
    /\ last'.op \in {"propose", "execute", "info"}
    /\ last'.root # repoPath

C29_InvalidRootFirst ==
    [][CallOnBadRoot =>
          /\ IsInvalidRoot(last'.result)
          /\ ~last'.spawned /\ ~last'.ran
          /\ UNCHANGED <<storeExists, ledger, audit, fs>>]_vars

\* propose on a regular file failed and no store exists.
C29_Witness ==
    /\ IsPropose /\ last.root = "/f.txt"
    /\ last.result = "InvalidRootError: Root is not a directory"
    /\ ~storeExists /\ ledger = EmptyLedger /\ audit = <<>>

(***************************************************************************)
(* C31.  Whenever execute spawns the confirmed command, HEAD equals the    *)
(* expected_head of the confirmation, and the current branch equals its    *)
(* expected_branch when one is set, also when another process commits or   *)
(* switches branch while the execute call is under way.                    *)
(***************************************************************************)
\* Caller p spawns the confirmed command in this step.
Spawns(p) == ~procs[p].spawned /\ procs'[p].spawned

\* The repository is as the record of id expects it.
AsApproved(id) ==
    LET pre == _load(fs)[id].preconditions IN
    /\ pre.expected_head = Some(RevParseHead)
    /\ pre.expected_branch # None => pre.expected_branch = Some(RevParseAbbrevRef)

C31_SpawnAtApprovedHead ==
    [][\A p \in Procs :
          (Spawns(p) /\ procs[p].id \in DOMAIN _load(fs)) => AsApproved(procs[p].id)]_vars

(***************************************************************************)
(* C32.  Every execution that execute reports as successful is recorded:   *)
(* when execute returns a result for id X, the ledger record of X has used *)
(* one higher than before the call and one 'executed' audit line for X has *)
(* been appended, under any interleaving with other calls on the root.     *)
(* Stated for an execute call that is the only one on its id, so that the  *)
(* count before the call is the one the store started with.                *)
(***************************************************************************)
\* Caller p returns the result of execute in this step.
ReturnsResult(p) ==
    /\ procs[p].op = "execute"
    /\ procs[p].pc \notin {"done", "returned"}
    /\ procs'[p].pc \in {"done", "returned"}

OnlyExecute(p) == \A q \in Procs \ {p} : procs[q].op # "execute"

ExecutedLines(log, id) ==
    Cardinality({i \in 1..Len(log) :
                    log[i].action = "executed" /\ log[i].confirmation_id = id})

C32_ExecutionRecorded ==
    [][\A p \in Procs :
          (ReturnsResult(p) /\ OnlyExecute(p)) =>
              /\ procs[p].id \in DOMAIN _load(fs')
              /\ _load(fs')[procs[p].id].used = 1
              /\ ExecutedLines(fs'.log, procs[p].id) = 1]_vars


(***************************************************************************)
(* C33.  Read-only mode accepts only non-mutating invocations: every       *)
(* argument list of branch, tag, remote or config that creates, renames or *)
(* deletes a branch, tag, remote or config value, a branch or tag followed *)
(* by a new name included, is rejected with the policy error by run in     *)
(* read-only mode.                                                         *)
(***************************************************************************)
\* git branch <name> and git tag <name> create the ref: the verb is followed
\* by an element that is no option.
CreatesRef ==
    /\ last.args[1] \in {"branch", "tag"} /\ Len(last.args) >= 2
    /\ Len(last.args[2]) > 0 /\ SubSeq(last.args[2], 1, 1) # "-"

Mutating == SubPolicyHit \/ CreatesRef

C33_MutationsRefused == (ReadOnlyRun /\ Mutating) => Refused

(***************************************************************************)
(* C34.  propose never overwrites an existing ledger record: for every id  *)
(* already in the ledger, a later propose, also one with the same root and *)
(* args within the same clock second, leaves that record's used count and  *)
(* expiry unchanged, so the used count of an id never decreases and a used *)
(* confirmation never returns to pending.                                  *)
(***************************************************************************)
ProposeStep == last'.op = "propose" /\ last'.result = Ok

C34_ProposeKeepsRecords ==
    [][ProposeStep =>
          \A id \in DOMAIN ledger :
             /\ id \in DOMAIN ledger'
             /\ ledger'[id].used = ledger[id].used
             /\ ledger'[id].expires_at = ledger[id].expires_at]_vars

(***************************************************************************)
(* C35.  In every reachable ledger state, under any interleaving of        *)
(* propose and execute calls, every record has max_uses = 1 and            *)
(* 0 <= used <= max_uses.                                                  *)
(***************************************************************************)
WithinUses(c) == c.max_uses = 1 /\ 0 <= c.used /\ c.used <= c.max_uses

\* The ledger file as the interleaved callers leave it.
C35_UsedWithinMaxUses ==
    fs.db # 0 => \A id \in DOMAIN _load(fs) : WithinUses(_load(fs)[id])

(***************************************************************************)
(* C36.  A proposal made with require_clean on a repository whose working  *)
(* tree has no changes of its own is executable: with the right phrase,    *)
(* HEAD unchanged and the token unexpired, execute passes the clean-tree   *)
(* check and runs the command; the ledger and audit files the store keeps  *)
(* under the repository root do not make the tree count as changed.        *)
(***************************************************************************)
\* An execute of a known, usable, untampered require_clean record with the
\* right phrase, on the expected branch and HEAD, without conflicts, git
\* answering every query.
ExecuteOfCleanProposal ==
    /\ IsExecute /\ Known /\ Rec.preconditions.require_clean
    /\ Check2_Root /\ Check3_CanUse /\ Check4_Phrase /\ Check5_Hash
    /\ BranchHolds /\ HeadHolds /\ NoConflictsHolds
    /\ last.gitOk

C36_CleanTreeExecutable ==
    [][(~dirty /\ ExecuteOfCleanProposal') => last'.ran]_vars

(***************************************************************************)
(* C37.  The command hash separates argument lists: for two different      *)
(* lists (of different length or with different elements, elements that    *)
(* contain newlines included) the text that is hashed differs, so a ledger *)
(* record whose args were replaced by a different list has a recomputed    *)
(* hash other than the stored one, which execute detects.                  *)
(***************************************************************************)
\* The ids whose stored args are not the args that were proposed.
Replaced ==
    {id \in DOMAIN ledger \cap DOMAIN approved : ledger[id].args # approved[id].args}

C37_HashSeparatesArgs ==
    \A id \in Replaced :
       /\ _stable_cmd_text(ledger[id].args) # _stable_cmd_text(approved[id].args)
       /\ command_hash(ledger[id].args) # ledger[id].cmd_hash

(***************************************************************************)
(* C38.  In every prefix of a root's audit log, under any interleaving of  *)
(* propose and execute calls, the number of 'executed' lines of an id      *)
(* never exceeds the number of its 'proposed' lines.                       *)
(***************************************************************************)
Lines(log, n, action, id) ==
    Cardinality({i \in 1..n : log[i].action = action /\ log[i].confirmation_id = id})

ExecutedWithinProposed(log) ==
    \A n \in 1..Len(log) :
       Lines(log, n, "executed", log[n].confirmation_id)
          <= Lines(log, n, "proposed", log[n].confirmation_id)

\* The audit file as the interleaved callers leave it.
C38_ExecutedWithinProposed == ExecutedWithinProposed(fs.log)

====
